---------------------------- MODULE Spec2Model ----------------------------
(***************************************************************************)
(* A model of bfd/pdb.c: the reader and the writer of PDB Multi-Stream     *)
(* Format (MSF) archives.                                                  *)
(*                                                                         *)
(* Representation.                                                         *)
(*  - A uint32_t is held in a TLC integer, which is a signed 32-bit word:  *)
(*    a value v < 2^31 is held as v, a value v >= 2^31 as v - 2^32 (the    *)
(*    same 32 bits).  Add32, Mul32, Div32, Mod32 and Lt32 are the C        *)
(*    operators +, *, /, % and < on uint32_t.                              *)
(*  - A byte string (a buffer, a member's contents, a file) is a record    *)
(*    [len, nz]: len bytes, nz the function from the positions of the      *)
(*    non-zero bytes to their values; every other byte is 0.               *)
(***************************************************************************)
EXTENDS Integers, Sequences, FiniteSets, TLC

(***************************************************************************)
(* uint32_t arithmetic                                                     *)
(***************************************************************************)
Half == 65536

\* The signed 16-bit reading of the high half h of a 32-bit word.
Wrap16(h) == ((h + 32768) % Half) - 32768

\* a + b on uint32_t.
Add32(a, b) ==
  LET s == (a % Half) + (b % Half)
  IN  Wrap16((a \div Half) + (b \div Half) + (s \div Half)) * Half + (s % Half)

\* a * m on uint32_t, for a multiplier 0 <= m < 2^15.
Mul32(a, m) ==
  LET p == (a % Half) * m
  IN  Wrap16((a \div Half) * m + (p \div Half)) * Half + (p % Half)

\* a / d on uint32_t, for a divisor 2 <= d < 2^15.
Div32(a, d) ==
  LET uh == (a \div Half) % Half
      t  == (uh % d) * Half + (a % Half)
  IN  (uh \div d) * Half + (t \div d)

\* a % d on uint32_t, for a divisor 1 <= d < 2^15.
Mod32(a, d) ==
  LET uh == (a \div Half) % Half
  IN  ((uh % d) * Half + (a % Half)) % d

\* a < b on uint32_t.
Lt32(a, b) == IF (a < 0) = (b < 0) THEN a < b ELSE b < 0

\* -a on uint32_t.
Neg32(a) == Add32(Wrap16(Half - 1 - ((a \div Half) % Half)) * Half
                    + (Half - 1 - (a % Half)), 1)

RECURSIVE And16(_, _)
And16(x, y) ==
  IF x = 0 \/ y = 0 THEN 0
  ELSE (IF x % 2 = 1 /\ y % 2 = 1 THEN 1 ELSE 0) + 2 * And16(x \div 2, y \div 2)

\* a & b on uint32_t.
And32(a, b) ==
  Wrap16(And16((a \div Half) % Half, (b \div Half) % Half)) * Half
    + And16(a % Half, b % Half)

(***************************************************************************)
(* Byte strings                                                            *)
(***************************************************************************)
NoBytes == [p \in {} |-> 0]

Zeros(n) == [len |-> n, nz |-> NoBytes]

ByteAt(b, p) == IF p \in DOMAIN b.nz THEN b.nz[p] ELSE 0

\* The n bytes of b from position off on (off + n <= b.len).  The positions
\* kept are found from the range when it is short, from b.nz otherwise.
Slice(b, off, n) ==
  LET keep == IF n <= 8
                THEN {q \in off..(off + n - 1) : q \in DOMAIN b.nz}
                ELSE {q \in DOMAIN b.nz : q >= off /\ q < off + n}
  IN  [len |-> n, nz |-> [p \in {q - off : q \in keep} |-> b.nz[p + off]]]

\* b with the bytes of src stored from position off on; b grows as needed
\* and a gap between its old end and off reads as zeros.  Where no non-zero
\* byte of b becomes zero, the new bytes are laid over the old ones.
Overlay(b, off, src) ==
  LET new == {q + off : q \in DOMAIN src.nz}
      put == [p \in new |-> src.nz[p - off]]
      cleared == IF src.len <= 8
                   THEN {q \in off..(off + src.len - 1) :
                           q \in DOMAIN b.nz /\ q \notin new}
                   ELSE {q \in DOMAIN b.nz :
                           q >= off /\ q < off + src.len /\ q \notin new}
  IN  [len |-> IF off + src.len > b.len THEN off + src.len ELSE b.len,
       nz  |-> IF cleared = {} THEN put @@ b.nz
               ELSE [p \in (DOMAIN b.nz \ cleared) \cup new |->
                       IF p \in new THEN put[p] ELSE b.nz[p]]]

\* bfd_putl32: the four little-endian bytes of a uint32_t.
bfd_putl32(v) ==
  LET byte(k) == CASE k = 0 -> v % 256
                   [] k = 1 -> (v \div 256) % 256
                   [] k = 2 -> (v \div Half) % 256
                   [] k = 3 -> (v \div 16777216) % 256
  IN  [len |-> 4, nz |-> [p \in {k \in 0..3 : byte(k) # 0} |-> byte(p)]]

\* bfd_getl32: the uint32_t of four little-endian bytes.
bfd_getl32(b) ==
  LET b3 == ByteAt(b, 3)
  IN  ByteAt(b, 0) + 256 * ByteAt(b, 1) + Half * ByteAt(b, 2)
        + 16777216 * (IF b3 >= 128 THEN b3 - 256 ELSE b3)

\* bfd_malloc (n): n bytes of indeterminate contents, each held as -1.
bfd_malloc(n) == [len |-> n, nz |-> [p \in 0..(n - 1) |-> -1]]

\* memset (buf + off, c, n)
memset(buf, off, c, n) ==
  IF n = 0 THEN buf
  ELSE Overlay(buf, off, [len |-> n,
                          nz  |-> IF c = 0 THEN NoBytes
                                  ELSE [p \in 0..(n - 1) |-> c]])

\* The block indices that the bytes off .. off + n - 1 lie in.
BlocksOf(off, n, block_size) ==
  IF n = 0 THEN {} ELSE (off \div block_size)..((off + n - 1) \div block_size)

(***************************************************************************)
(* The writer.  Its state w: the output file out and its position pos, the *)
(* locals of pdb_write_contents and pdb_write_directory, the live scratch  *)
(* buffers (bufs), and what the call has done so far: fallible calls made  *)
(* (ios; the call numbered failAt fails), blocks handed out (allocs), the  *)
(* values num_blocks took (nbs) and the blocks written to (wrote).         *)
(***************************************************************************)
pdb_magic ==
  [len |-> 32,
   nz  |-> [p \in 0..28 |->
     <<77, 105, 99, 114, 111, 115, 111, 102, 116, 32, 67, 47, 67, 43, 43, 32,
       77, 83, 70, 32, 55, 46, 48, 48, 13, 10, 26, 68, 83>>[p + 1]]]

WriterStart(block_size, failAt) ==
  [st |-> "run", ok |-> FALSE, err |-> "none",
   out |-> Zeros(0), pos |-> 0, block_size |-> block_size,
   num_blocks |-> 0, block_map_addr |-> 0, block |-> 0, left |-> 0,
   block_map_off |-> 0, size |-> 0, file_block |-> 0, to_read |-> 0,
   apos |-> 0, buf |-> Zeros(0),
   ios |-> 0, failAt |-> failAt, bufs |-> 0,
   allocs |-> <<>>, nbs |-> {}, wrote |-> {}, nwrites |-> 0, ovf |-> -1]

\* return false, after free (buf) where the site frees it.
WReturnFalse(w, exit) ==
  [w EXCEPT !.st = "done", !.ok = FALSE,
            !.bufs = IF exit = "free" THEN @ - 1 ELSE @]

\* return true, from pdb_write_contents.
WReturnTrue(w) ==
  IF w.st # "run" THEN w ELSE [w EXCEPT !.st = "done", !.ok = TRUE]

\* A fallible call fails: the host sets bfd_error_system_call.
WFails(w) == w.ios + 1 = w.failAt

WIoError(w, exit) ==
  WReturnFalse([w EXCEPT !.ios = @ + 1, !.err = "system_call"], exit)

\* if (bfd_seek (abfd, off, SEEK_SET)) <exit>
WSeek(w, off, exit) ==
  IF w.st # "run" THEN w
  ELSE IF WFails(w) THEN WIoError(w, exit)
  ELSE [w EXCEPT !.ios = @ + 1, !.pos = off]

\* if (bfd_seek (abfd, sizeof (uint32_t), SEEK_CUR)) return false;
WSkip32(w) == WSeek(w, w.pos + 4, "ret")

\* if (bfd_bwrite (b, n, abfd) != n) <exit>
WWrite(w, b, exit) ==
  IF w.st # "run" THEN w
  ELSE IF WFails(w) THEN WIoError(w, exit)
  ELSE [w EXCEPT !.ios = @ + 1,
                 !.out = IF b.len = 0 THEN @ ELSE Overlay(@, w.pos, b),
                 !.pos = @ + b.len,
                 !.wrote = @ \cup BlocksOf(w.pos, b.len, w.block_size),
                 !.nwrites = @ + 1]

\* bfd_putl32 (v, tmp); if (bfd_bwrite (tmp, 4, abfd) != 4) <exit>
WWrite32(w, v, exit) == WWrite(w, bfd_putl32(v), exit)

\* pdb_allocate_block without the test of block % block_size.
AllocateNext(num_blocks, block_size) ==
  [block |-> num_blocks, num_blocks |-> num_blocks + 1]

\* pdb_allocate_block, on the counter *num_blocks: the block returned and
\* the counter afterwards.
pdb_allocate_block(num_blocks, block_size) ==
  LET block == num_blocks
  IN  IF block % block_size = 1
        THEN [block |-> block + 2, num_blocks |-> num_blocks + 1 + 2]
        ELSE [block |-> block, num_blocks |-> num_blocks + 1]

\* The writer's state after a call of pdb_allocate_block that returned a.
Allocated(w, a) ==
  [w EXCEPT !.num_blocks = a.num_blocks,
            !.allocs = Append(@, a.block),
            !.nbs = @ \cup {a.num_blocks}]

\* TooManyBlocks one entry late: the page is taken for full once an entry
\* has been written past its end.
TooManyBlocksLate(w) == w.block_map_off = w.block_size + 4

\* if (block_map_off == block_size): the block map page is full.
TooManyBlocks(w) == w.block_map_off = w.block_size

\* left -= sizeof (uint32_t)
WLeftMinus4(w) == IF w.st # "run" THEN w ELSE [w EXCEPT !.left = @ - 4]

\* block = pdb_allocate_block (num_blocks, block_size); left = block_size;
AllocDirBlock(w) ==
  IF w.st # "run" THEN w
  ELSE LET a == pdb_allocate_block(w.num_blocks, w.block_size)
       IN  [Allocated(w, a) EXCEPT !.block = a.block, !.left = w.block_size]

\* bfd_putl32 (block, tmp); if (bfd_bwrite (tmp, 4, abfd) != 4) <exit>
WriteDirBlock(w, exit) == WWrite32(w, w.block, exit)

\* block_map_off += sizeof (uint32_t)
BlockMapOffPlus4(w) ==
  IF w.st # "run" THEN w ELSE [w EXCEPT !.block_map_off = @ + 4]

\* if (bfd_seek (abfd, block * block_size, SEEK_SET)) <exit>
SeekDirBlock(w, exit) == WSeek(w, w.block * w.block_size, exit)

\* The body of "if (left == 0)" in pdb_write_directory: a new directory
\* block, entered in the block map page.
NewDirBlock(w, exit) ==
  IF w.st # "run" THEN w
  ELSE IF TooManyBlocks(w)
    THEN WReturnFalse([w EXCEPT !.err = "invalid_operation",
                                !.ovf = w.nwrites], exit)
  ELSE
    LET w1 == AllocDirBlock(w)
        w2 == WSeek(w1, (w.block_map_addr * w.block_size) + w.block_map_off,
                    exit)
        w3 == WriteDirBlock(w2, exit)
        w4 == BlockMapOffPlus4(w3)
    IN  SeekDirBlock(w4, exit)

\* One turn of the "Write file sizes" loop, for the member arelt.
SizeStep(w, arelt) ==
  IF w.st # "run" THEN w
  ELSE
    LET w1 == IF w.left = 0 THEN NewDirBlock(w, "ret") ELSE w
        w2 == WWrite32(w1, arelt.len, "ret")
    IN  WLeftMinus4(w2)

\* while (arelt) over the members lo .. hi - 1, split in halves.
RECURSIVE SizesLoop(_, _, _, _)
SizesLoop(w, members, lo, hi) ==
  IF w.st # "run" \/ lo >= hi THEN w
  ELSE IF hi = lo + 1 THEN SizeStep(w, members[lo])
  ELSE LET mid == (lo + hi) \div 2
           half == SizesLoop(w, members, lo, mid)
       IN  SizesLoop(half, members, mid, hi)

\* if (bfd_seek (arelt, 0, SEEK_SET)) <exit>
ASeek(w, exit) ==
  IF w.st # "run" THEN w
  ELSE IF WFails(w) THEN WIoError(w, exit)
  ELSE [w EXCEPT !.ios = @ + 1, !.apos = 0]

\* if (bfd_bread (buf, n, arelt) != n) <exit>
ARead(w, arelt, n, exit) ==
  IF w.st # "run" THEN w
  ELSE IF WFails(w) \/ w.apos + n > arelt.len THEN WIoError(w, exit)
  ELSE [w EXCEPT !.ios = @ + 1,
                 !.buf = IF n = 0 THEN @
                         ELSE Overlay(@, 0, Slice(arelt, w.apos, n)),
                 !.apos = @ + n]

\* uint32_t file_block = pdb_allocate_block (num_blocks, block_size);
AllocFileBlock(w) ==
  IF w.st # "run" THEN w
  ELSE LET a == pdb_allocate_block(w.num_blocks, w.block_size)
       IN  [Allocated(w, a) EXCEPT !.file_block = a.block]

\* bfd_putl32 (file_block, tmp); if (bfd_bwrite (tmp, 4, abfd) != 4) ...
WriteFileBlock(w) == WWrite32(w, w.file_block, "free")

\* to_read = size > block_size ? block_size : size;
\* if (bfd_bread (buf, to_read, arelt) != to_read) ...
ReadPart(w, arelt) ==
  IF w.st # "run" THEN w
  ELSE LET to_read == IF w.size > w.block_size THEN w.block_size ELSE w.size
       IN  ARead([w EXCEPT !.to_read = to_read], arelt, to_read, "free")

\* size -= to_read;
\* if (to_read < block_size) memset (buf + to_read, 0, block_size - to_read);
PadPart(w) ==
  IF w.st # "run" THEN w
  ELSE [w EXCEPT !.size = @ - w.to_read,
                 !.buf = IF w.to_read < w.block_size
                           THEN memset(@, w.to_read, 0,
                                       w.block_size - w.to_read)
                           ELSE @]

\* if (bfd_seek (abfd, file_block * block_size, SEEK_SET)) ...
SeekFileBlock(w) == WSeek(w, w.file_block * w.block_size, "free")

\* if (bfd_bwrite (buf, block_size, abfd) != block_size) <exit>
WriteBuf(w, exit) == WWrite(w, w.buf, exit)

\* if (bfd_seek (abfd, (block * block_size) + block_size - left, SEEK_SET))
SeekDirectory(w) ==
  WSeek(w, (w.block * w.block_size) + w.block_size - w.left, "free")

\* One turn of "for (i = 0; i < req_blocks; i++)" for the member arelt.
BlockStep(w, arelt) ==
  IF w.st # "run" THEN w
  ELSE
    LET w1 == IF w.left = 0 THEN NewDirBlock(w, "free") ELSE w
        w2 == AllocFileBlock(w1)
        w3 == WriteFileBlock(w2)
        w4 == WLeftMinus4(w3)
        w5 == ReadPart(w4, arelt)
        w6 == PadPart(w5)
        w7 == SeekFileBlock(w6)
        w8 == WriteBuf(w7, "free")
    IN  SeekDirectory(w8)

RECURSIVE BlocksLoop(_, _, _, _)
BlocksLoop(w, arelt, lo, hi) ==
  IF w.st # "run" \/ lo >= hi THEN w
  ELSE IF hi = lo + 1 THEN BlockStep(w, arelt)
  ELSE LET mid == (lo + hi) \div 2
           half == BlocksLoop(w, arelt, lo, mid)
       IN  BlocksLoop(half, arelt, mid, hi)

\* One turn of the "Write blocks" loop, for the member arelt.
MemberStep(w, arelt) ==
  IF w.st # "run" THEN w
  ELSE
    LET size == arelt.len
        req_blocks == (size + w.block_size - 1) \div w.block_size
    IN  BlocksLoop(ASeek([w EXCEPT !.size = size], "free"), arelt,
                   0, req_blocks)

RECURSIVE MembersLoop(_, _, _, _)
MembersLoop(w, members, lo, hi) ==
  IF w.st # "run" \/ lo >= hi THEN w
  ELSE IF hi = lo + 1 THEN MemberStep(w, members[lo])
  ELSE LET mid == (lo + hi) \div 2
           half == MembersLoop(w, members, lo, mid)
       IN  MembersLoop(half, members, mid, hi)

\* buf = bfd_malloc (n); if (!buf) return false;
WMalloc(w, n) ==
  IF w.st # "run" THEN w
  ELSE IF WFails(w)
    THEN WReturnFalse([w EXCEPT !.ios = @ + 1, !.err = "no_memory"], "ret")
  ELSE [w EXCEPT !.ios = @ + 1, !.buf = bfd_malloc(n), !.bufs = @ + 1]

\* free (buf)
WFree(w) == IF w.st # "run" THEN w ELSE [w EXCEPT !.bufs = @ - 1]

\* block_map_off = sizeof (uint32_t)
BlockMapOff4(w) == IF w.st # "run" THEN w ELSE [w EXCEPT !.block_map_off = 4]

\* memset (buf, 0, left); if (bfd_bwrite (buf, left, abfd) != left) ...
WriteRest(w) ==
  IF w.st # "run" THEN w
  ELSE WWrite(w, Slice(memset(w.buf, 0, 0, w.left), 0, w.left), "free")

\* pdb_write_directory (abfd, block_size, num_files, block_map_addr,
\* &num_blocks), the archive's members being the byte strings of members.
\* It leaves st = "run" where the source returns true.
pdb_write_directory(w, members) ==
  LET num_files == Len(members)
      w1 == AllocDirBlock(w)
      w2 == WSeek(w1, w.block_map_addr * w.block_size, "ret")
      w3 == WriteDirBlock(w2, "ret")
      w4 == BlockMapOff4(w3)
      w5 == SeekDirBlock(w4, "ret")
      w6 == WWrite32(w5, num_files, "ret")
      w7 == WLeftMinus4(w6)
      w8 == SizesLoop(w7, members, 1, num_files + 1)
      w9 == WMalloc(w8, w.block_size)
      w10 == MembersLoop(w9, members, 1, num_files + 1)
      w11 == WriteRest(w10)
  IN  WFree(w11)

\* 1 << k
Shl1(k) == CASE k = 0 -> 1 [] k = 1 -> 2 [] k = 2 -> 4 [] k = 3 -> 8
             [] k = 4 -> 16 [] k = 5 -> 32 [] k = 6 -> 64 [] k = 7 -> 128
             [] k = 8 -> 256

\* What one turn of the loop of pdb_write_bitmap stores in buf, num_blocks
\* being the blocks not yet accounted for: 0 = used, 1 = free.
BitmapFill(buf, num_blocks, block_size) ==
  LET b1 == IF num_blocks >= 8
              THEN memset(buf, 0, 0,
                          IF (num_blocks \div 8) > block_size
                            THEN block_size ELSE num_blocks \div 8)
              ELSE buf
      off0 == num_blocks \div 8
      b2 == IF num_blocks % 8 # 0
              THEN Overlay(b1, off0,
                           [len |-> 1,
                            nz  |-> [p \in {0} |->
                                       Shl1(8 - (num_blocks % 8)) - 1]])
              ELSE b1
      off == IF num_blocks % 8 # 0 THEN off0 + 1 ELSE off0
  IN  IF num_blocks < block_size * 8
        THEN IF off < block_size
               THEN memset(b2, off, 255, block_size - off)
               ELSE b2
        ELSE b1

\* BitmapRest without the decrement.
BitmapRestKept(num_blocks, block_size) == num_blocks

\* The blocks left to account for after one turn.
BitmapRest(num_blocks, block_size) ==
  IF num_blocks < block_size * 8 THEN 0 ELSE num_blocks - block_size * 8

\* The stores into buf and the update of num_blocks in one turn of the loop
\* of pdb_write_bitmap; w.size holds the local num_blocks.
BitmapTurn(w) ==
  IF w.st # "run" THEN w
  ELSE [w EXCEPT !.buf = BitmapFill(@, w.size, w.block_size),
                 !.size = BitmapRest(@, w.block_size)]

\* if (bfd_bwrite (buf, block_size, abfd) != block_size) return false;
\* in the loop of pdb_write_bitmap.
BitmapWrite(w) == WriteBuf(w, "ret")

\* One turn of the loop of pdb_write_bitmap, for interval i.
BitmapStep(w, i) ==
  IF w.st # "run" THEN w
  ELSE
    LET w1 == WSeek(w, ((i * w.block_size) + 1) * w.block_size, "free")
        w2 == BitmapTurn(w1)
    IN  BitmapWrite(w2)

RECURSIVE BitmapLoop(_, _, _)
BitmapLoop(w, lo, hi) ==
  IF w.st # "run" \/ lo >= hi THEN w
  ELSE IF hi = lo + 1 THEN BitmapStep(w, lo)
  ELSE LET mid == (lo + hi) \div 2
           half == BitmapLoop(w, lo, mid)
       IN  BitmapLoop(half, mid, hi)

\* num_blocks--;  (w.size holds the local num_blocks)
BitmapCount(w, num_blocks) ==
  IF w.st # "run" THEN w ELSE [w EXCEPT !.size = num_blocks - 1]

\* pdb_write_bitmap (abfd, block_size, num_blocks).  It leaves st = "run"
\* where the source returns true.
pdb_write_bitmap(w, num_blocks) ==
  LET num_intervals == (num_blocks + w.block_size - 1) \div w.block_size
      w1 == WMalloc(w, w.block_size)
      w2 == BitmapCount(w1, num_blocks)
      w3 == BitmapLoop(w2, 0, num_intervals)
  IN  WFree(w3)

\* The sum over the members lo .. hi - 1 of the directory bytes each adds
\* in the first loop of pdb_write_contents: its size and its blocks.
RECURSIVE DirectoryBytes(_, _, _, _)
DirectoryBytes(members, block_size, lo, hi) ==
  IF lo >= hi THEN 0
  ELSE IF hi = lo + 1
    THEN 4 + ((members[lo].len + block_size - 1) \div block_size) * 4
  ELSE LET mid == (lo + hi) \div 2
       IN  DirectoryBytes(members, block_size, lo, mid)
             + DirectoryBytes(members, block_size, mid, hi)

\* num_blocks = 3: superblock plus two bitmap blocks.
FirstBlocks(w) ==
  IF w.st # "run" THEN w ELSE [w EXCEPT !.num_blocks = 3, !.nbs = {3}]

\* block_map_addr = pdb_allocate_block (&num_blocks, block_size);
AllocBlockMap(w) ==
  IF w.st # "run" THEN w
  ELSE LET a == pdb_allocate_block(w.num_blocks, w.block_size)
       IN  [Allocated(w, a) EXCEPT !.block_map_addr = a.block]

\* bfd_putl32 (block_map_addr, tmp); if (bfd_bwrite (...) != 4) return false;
WriteBlockMapAddr(w) == WWrite32(w, w.block_map_addr, "ret")

\* if (!pdb_write_bitmap (abfd, block_size, num_blocks)) return false;
WriteBitmap(w) ==
  IF w.st # "run" THEN w ELSE pdb_write_bitmap(w, w.num_blocks)

\* bfd_putl32 (num_blocks, tmp); if (bfd_bwrite (...) != 4) return false;
WriteNumBlocks(w) == WWrite32(w, w.num_blocks, "ret")

\* pdb_write_contents (abfd), with block_size as the parameter it hands to
\* pdb_allocate_block, pdb_write_directory and pdb_write_bitmap (the source
\* fixes it to 0x400), the failAt-th fallible call failing.
pdb_write_contents(block_size, members, failAt) ==
  LET num_directory_bytes ==
        4 + DirectoryBytes(members, block_size, 1, Len(members) + 1)
      w1 == WWrite(WriterStart(block_size, failAt), pdb_magic, "ret")
      w2 == WWrite32(w1, block_size, "ret")
      w3 == WWrite32(w2, 1, "ret")
      w4 == FirstBlocks(w3)
      w5 == WSkip32(w4)
      w6 == WWrite32(w5, num_directory_bytes, "ret")
      w7 == WSkip32(w6)
      w8 == AllocBlockMap(w7)
      w9 == WriteBlockMapAddr(w8)
      w10 == pdb_write_directory(w9, members)
      w11 == WriteBitmap(w10)
      w12 == WSeek(w11, 32 + 4 + 4, "ret")
      w13 == WriteNumBlocks(w12)
  IN  WReturnTrue(w13)

(***************************************************************************)
(* The reader.  Its state r: the position pos in the archive f, the locals *)
(* of pdb_get_elt_at_index, the member under construction (elt: "none",    *)
(* "open" or "closed"; key, parsed_size and the bytes written to it), the  *)
(* live scratch buffers (bufs), and what the call has done so far:         *)
(* fallible calls made (ios; the call numbered failAt fails) and the reads *)
(* of the archive, each <<position, bytes asked for>> (reads).             *)
(***************************************************************************)
ReaderStart(failAt) ==
  [st |-> "run", ret |-> "null", err |-> "none", pos |-> 0, val |-> 0,
   block_size |-> 0, block_map_addr |-> 0, first_dir_block |-> 0,
   num_files |-> 0, dir_offset |-> 0, file_size |-> 0, block |-> 0,
   block_off |-> 0, left |-> 0, file_block |-> 0, to_read |-> 0,
   buf |-> Zeros(0),
   elt |-> "none", key |-> 0, parsed_size |-> 0, data |-> Zeros(0),
   ios |-> 0, failAt |-> failAt, bufs |-> 0, reads |-> {}, seeks |-> {}]

\* return NULL, by the path the site takes: "ret" returns at once, "fail"
\* closes the member, "fail2" frees buf and falls into fail.
RReturnNull(r, exit) ==
  [r EXCEPT !.st = "done", !.ret = "null",
            !.bufs = IF exit = "fail2" THEN @ - 1 ELSE @,
            !.elt = IF exit \in {"fail", "fail2"} THEN "closed" ELSE @]

RFails(r) == r.ios + 1 = r.failAt

\* if (bfd_seek (abfd, off, SEEK_SET)) <exit>
RSeek(r, off, exit) ==
  IF r.st # "run" THEN r
  ELSE IF RFails(r)
    THEN RReturnNull([r EXCEPT !.ios = @ + 1, !.err = "system_call"], exit)
  ELSE [r EXCEPT !.ios = @ + 1, !.pos = off]

\* The bytes a bfd_bread of n bytes at position pos of f delivers: fewer
\* than n at the end of the file (a position of 2^31 or more, held as a
\* negative number, is beyond the end of every file of the model).
Delivered(f, pos, n) ==
  IF pos < 0 \/ pos >= f.len THEN 0
  ELSE IF pos + n > f.len THEN f.len - pos ELSE n

\* if (bfd_bread (int_buf, 4, abfd) != 4)
\*   { bfd_set_error (bfd_error_malformed_archive); <exit> }
\* r.val = bfd_getl32 (int_buf)
RRead32(r, f, exit) ==
  IF r.st # "run" THEN r
  ELSE
    LET r1 == [r EXCEPT !.ios = @ + 1, !.reads = @ \cup {<<r.pos, 4>>}]
    IN  IF RFails(r) \/ Delivered(f, r.pos, 4) # 4
          THEN RReturnNull([r1 EXCEPT !.err = "malformed_archive"], exit)
          ELSE [r1 EXCEPT !.val = bfd_getl32(Slice(f, r.pos, 4)),
                          !.pos = @ + 4]

\* (block * block_size) + off, on uint32_t
BlockOffset(block, block_size, off) == Add32(Mul32(block, block_size), off)

\* if (bfd_seek (abfd, (block * block_size) + off, SEEK_SET)) <exit>
\* The offset handed to bfd_seek is the uint32_t value of the expression;
\* seeks keeps the block, the offset in it and the offset sought.
RSeekBlock(r, block, off, exit) ==
  IF r.st # "run" THEN r
  ELSE RSeek([r EXCEPT !.seeks =
                @ \cup {<<block, off, BlockOffset(block, r.block_size, off)>>}],
             BlockOffset(block, r.block_size, off), exit)

\* BlockSizeOk without the test for a power of two.
BlockSizeInRange(block_size) ==
  ~ (Lt32(block_size, 512) \/ Lt32(4096, block_size))

\* The test of block_size in pdb_get_elt_at_index: the header is accepted.
BlockSizeOk(block_size) ==
  ~ (And32(block_size, Neg32(block_size)) # block_size
       \/ Lt32(block_size, 512)
       \/ Lt32(4096, block_size))

\* block = bfd_getl32 (int_buf)
TakeBlock(r) == IF r.st # "run" THEN r ELSE [r EXCEPT !.block = r.val]

\* block = the entry of the block map page for the directory block that
\* holds dir_offset: seek, read, bfd_getl32.
ReadBlockMapEntry(r, f, exit) ==
  IF r.st # "run" THEN r
  ELSE
    LET block_map_addr_off == Mul32(Div32(r.dir_offset, r.block_size), 4)
        r1 == RSeekBlock(r, r.block_map_addr, block_map_addr_off, exit)
        r2 == RRead32(r1, f, exit)
    IN  TakeBlock(r2)

\* ResolveDirBlock with the first directory block taken for every offset.
ResolveFirstDirBlock(r, f, exit) ==
  IF r.st # "run" THEN r ELSE [r EXCEPT !.block = r.first_dir_block]

\* if (dir_offset >= block_size) <read the entry> else block = first_dir_block
ResolveDirBlock(r, f, exit) ==
  IF r.st # "run" THEN r
  ELSE IF ~ Lt32(r.dir_offset, r.block_size)
    THEN ReadBlockMapEntry(r, f, exit)
  ELSE [r EXCEPT !.block = r.first_dir_block]

\* if (bfd_seek (abfd, block * block_size, SEEK_SET)) <exit>
SeekBlock(r, exit) == RSeekBlock(r, r.block, 0, exit)

\* if (size == 0xffffffff) size = 0;
\* num_blocks = (size + block_size - 1) / block_size;
\* block_off += num_blocks; dir_offset += sizeof (uint32_t);
AddBlocks(r) ==
  IF r.st # "run" THEN r
  ELSE
    LET size == IF r.val = -1 THEN 0 ELSE r.val
        num_blocks ==
          Div32(Add32(Add32(size, r.block_size), -1), r.block_size)
    IN  [r EXCEPT !.block_off = Add32(@, num_blocks),
                  !.dir_offset = Add32(@, 4)]

\* One turn of the loop "Sum number of blocks in previous files".
SumStep(r, f) ==
  IF r.st # "run" THEN r
  ELSE
    LET r1 == IF Mod32(r.dir_offset, r.block_size) = 0
                THEN SeekBlock(ReadBlockMapEntry(r, f, "fail"), "fail")
                ELSE r
        r2 == RRead32(r1, f, "fail")
    IN  AddBlocks(r2)

RECURSIVE SumLoop(_, _, _, _)
SumLoop(r, f, lo, hi) ==
  IF r.st # "run" \/ lo >= hi THEN r
  ELSE IF hi = lo + 1 THEN SumStep(r, f)
  ELSE LET mid == (lo + hi) \div 2
           half == SumLoop(r, f, lo, mid)
       IN  SumLoop(half, f, mid, hi)

\* if (bfd_bread (buf, n, abfd) != n)
\*   { bfd_set_error (bfd_error_malformed_archive); goto fail2; }
RReadBuf(r, f, n) ==
  IF r.st # "run" THEN r
  ELSE
    LET r1 == [r EXCEPT !.ios = @ + 1, !.reads = @ \cup {<<r.pos, n>>}]
    IN  IF RFails(r) \/ Delivered(f, r.pos, n) # n
          THEN RReturnNull([r1 EXCEPT !.err = "malformed_archive"], "fail2")
          ELSE [r1 EXCEPT !.buf = Overlay(@, 0, Slice(f, r.pos, n)),
                          !.pos = @ + n]

\* if (bfd_bwrite (buf, n, file) != n) goto fail2;
EltWrite(r, n) ==
  IF r.st # "run" THEN r
  ELSE IF RFails(r)
    THEN RReturnNull([r EXCEPT !.ios = @ + 1, !.err = "system_call"], "fail2")
  ELSE [r EXCEPT !.ios = @ + 1,
                 !.data = Overlay(@, r.data.len, Slice(r.buf, 0, n))]

\* if (bfd_seek (abfd, (block * block_size) + (dir_offset % block_size),
\*               SEEK_SET)) <exit>
SeekDirOffset(r, exit) ==
  RSeekBlock(r, r.block, Mod32(r.dir_offset, r.block_size), exit)

\* file_block = bfd_getl32 (int_buf)
TakeFileBlock(r) ==
  IF r.st # "run" THEN r ELSE [r EXCEPT !.file_block = r.val]

\* if (bfd_seek (abfd, file_block * block_size, SEEK_SET)) goto fail2;
SeekFileBlockOf(r) == RSeekBlock(r, r.file_block, 0, "fail2")

\* ReadPartOf with every part read whole: to_read = block_size.
ReadPartWhole(r, f) ==
  IF r.st # "run" THEN r
  ELSE RReadBuf([r EXCEPT !.to_read = r.block_size], f, r.block_size)

\* to_read = left > block_size ? block_size : left;
\* if (bfd_bread (buf, to_read, abfd) != to_read) ...
ReadPartOf(r, f) ==
  IF r.st # "run" THEN r
  ELSE LET to_read == IF Lt32(r.block_size, r.left)
                        THEN r.block_size ELSE r.left
       IN  RReadBuf([r EXCEPT !.to_read = to_read], f, to_read)

\* if (bfd_bwrite (buf, to_read, file) != to_read) goto fail2;
EltWritePart(r) == EltWrite(r, r.to_read)

\* if (left > block_size) left -= block_size; else break;
\* dir_offset += sizeof (uint32_t);  } while (left > 0);
\* st = "brk" once the loop is left.
NextPart(r) ==
  IF r.st # "run" THEN r
  ELSE IF Lt32(r.block_size, r.left)
    THEN [r EXCEPT !.left = Add32(@, - r.block_size),
                   !.dir_offset = Add32(@, 4),
                   !.st = IF Add32(r.left, - r.block_size) = 0
                            THEN "brk" ELSE @]
  ELSE [r EXCEPT !.st = "brk"]

\* One turn of the do ... while (left > 0) loop "Read blocks, and write
\* into new BFD".
ReadStep(r, f) ==
  IF r.st # "run" THEN r
  ELSE
    LET r1 == IF Mod32(r.dir_offset, r.block_size) = 0
                   /\ r.left # r.file_size
                THEN ReadBlockMapEntry(r, f, "fail2")
                ELSE r
        r2 == SeekDirOffset(r1, "fail2")
        r3 == RRead32(r2, f, "fail2")
        r4 == TakeFileBlock(r3)
        r5 == SeekFileBlockOf(r4)
        r6 == ReadPartOf(r5, f)
        r7 == EltWritePart(r6)
    IN  NextPart(r7)

RECURSIVE ReadLoop(_, _, _, _)
ReadLoop(r, f, lo, hi) ==
  IF r.st # "run" \/ lo >= hi THEN r
  ELSE IF hi = lo + 1 THEN ReadStep(r, f)
  ELSE LET mid == (lo + hi) \div 2
           half == ReadLoop(r, f, lo, mid)
       IN  ReadLoop(half, f, mid, hi)

\* A fallible call that touches neither the archive nor a buffer:
\* bfd_create ("ret"), bfd_make_writable and bfd_zmalloc ("fail").
RCall(r, exit) ==
  IF r.st # "run" THEN r
  ELSE IF RFails(r)
    THEN RReturnNull([r EXCEPT !.ios = @ + 1, !.err = "no_memory"], exit)
  ELSE [r EXCEPT !.ios = @ + 1]

\* buf = bfd_malloc (block_size); if (!buf) goto fail;
RMalloc(r) ==
  IF r.st # "run" THEN r
  ELSE IF RFails(r)
    THEN RReturnNull([r EXCEPT !.ios = @ + 1, !.err = "no_memory"], "fail")
  ELSE [r EXCEPT !.ios = @ + 1, !.buf = bfd_malloc(r.block_size),
                 !.bufs = @ + 1]

\* return file
RReturnFile(r) == IF r.st # "run" THEN r
                  ELSE [r EXCEPT !.st = "done", !.ret = "file"]

\* block_size = bfd_getl32 (int_buf) and the test of block_size.
TakeBlockSize(r) ==
  IF r.st # "run" THEN r
  ELSE IF ~ BlockSizeOk(r.val)
    THEN RReturnNull([r EXCEPT !.block_size = r.val,
                               !.err = "malformed_archive"], "ret")
  ELSE [r EXCEPT !.block_size = r.val]

\* "Get block_size" .. the test of block_size.
ReadBlockSize(f, failAt) ==
  LET r1 == RSeek(ReaderStart(failAt), 32, "ret")
      r2 == RRead32(r1, f, "ret")
  IN  TakeBlockSize(r2)

\* block_map_addr = bfd_getl32 (int_buf)
TakeBlockMapAddr(r) ==
  IF r.st # "run" THEN r ELSE [r EXCEPT !.block_map_addr = r.val]

\* if (bfd_seek (abfd, block_map_addr * block_size, SEEK_SET)) return NULL;
SeekBlockMap(r) == RSeekBlock(r, r.block_map_addr, 0, "ret")

\* first_dir_block = bfd_getl32 (int_buf)
TakeFirstDirBlock(r) ==
  IF r.st # "run" THEN r ELSE [r EXCEPT !.first_dir_block = r.val]

\* if (bfd_seek (abfd, first_dir_block * block_size, SEEK_SET)) return NULL;
SeekFirstDirBlock(r) ==
  RSeekBlock(r, r.first_dir_block, 0, "ret")

\* num_files = bfd_getl32 (int_buf); if (sym_index >= num_files) ...
TakeNumFiles(r, sym_index) ==
  IF r.st # "run" THEN r
  ELSE IF ~ Lt32(sym_index, r.val)
    THEN RReturnNull([r EXCEPT !.num_files = r.val,
                               !.err = "no_more_archived_files"], "ret")
  ELSE [r EXCEPT !.num_files = r.val]

\* "Get block_map_addr" and "Get num_files" .. the test of sym_index.
ReadNumFiles(r, f, sym_index) ==
  LET r1 == RSeek(r, r.pos + 4 * 4, "ret")
      r2 == RRead32(r1, f, "ret")
      r3 == TakeBlockMapAddr(r2)
      r4 == SeekBlockMap(r3)
      r5 == RRead32(r4, f, "ret")
      r6 == TakeFirstDirBlock(r5)
      r7 == SeekFirstDirBlock(r6)
      r8 == RRead32(r7, f, "ret")
  IN  TakeNumFiles(r8, sym_index)

\* if (file_size == 0xffffffff) file_size = 0;
SizeSentinel == -1

\* dir_offset = v
SetDirOffset(r, v) == IF r.st # "run" THEN r ELSE [r EXCEPT !.dir_offset = v]

\* TakeFileSize without the test for 0xffffffff.
TakeFileSizeAsRead(r) ==
  IF r.st # "run" THEN r ELSE [r EXCEPT !.file_size = r.val]

\* file_size = bfd_getl32 (int_buf), the sentinel read as 0.
TakeFileSize(r) ==
  IF r.st # "run" THEN r
  ELSE [r EXCEPT !.file_size = IF r.val = SizeSentinel THEN 0 ELSE r.val]

\* file = bfd_create (name, abfd) has succeeded.
EltOpen(r) == IF r.st # "run" THEN r ELSE [r EXCEPT !.elt = "open"]

\* arch_eltdata (file)->parsed_size = file_size; ->key = sym_index;
EltInit(r, sym_index) ==
  IF r.st # "run" THEN r
  ELSE [r EXCEPT !.parsed_size = r.file_size, !.key = sym_index]

\* if (file_size == 0) return file;
ReturnIfEmpty(r) ==
  IF r.st = "run" /\ r.file_size = 0 THEN RReturnFile(r) ELSE r

\* "Read file size" .. "Create BFD" .. if (file_size == 0) return file.
ReadFileSize(r, f, sym_index) ==
  LET r1 == SetDirOffset(r, Mul32(sym_index + 1, 4))
      r2 == ResolveDirBlock(r1, f, "ret")
      r3 == SeekDirOffset(r2, "ret")
      r4 == RRead32(r3, f, "ret")
      r5 == TakeFileSize(r4)
      r6 == RCall(r5, "ret")
      r7 == EltOpen(r6)
      r8 == RCall(RCall(r7, "fail"), "fail")
      r9 == EltInit(r8, sym_index)
  IN  ReturnIfEmpty(r9)

\* "Sum number of blocks in previous files"
SumPreviousBlocks(r, f, sym_index) ==
  IF r.st # "run" THEN r
  ELSE IF sym_index # 0
    THEN SumLoop(RSeekBlock([r EXCEPT !.block_off = 0, !.dir_offset = 4],
                            r.first_dir_block, 4, "fail"),
                 f, 0, sym_index)
  ELSE [r EXCEPT !.block_off = 0]

\* left = file_size
SetLeft(r) == IF r.st # "run" THEN r ELSE [r EXCEPT !.left = r.file_size]

\* The do ... while (left > 0) loop: it makes at most
\* file_size / block_size + 1 turns.
ReadParts(r, f) ==
  IF r.st # "run" THEN r
  ELSE ReadLoop(r, f, 0, Div32(r.file_size, r.block_size) + 1)

\* free (buf), after the loop.
RFree(r) ==
  IF r.st = "brk" THEN [r EXCEPT !.st = "run", !.bufs = @ - 1] ELSE r

\* "Read blocks, and write into new BFD" .. return file.
ReadBlocks(r, f) ==
  IF r.st # "run" THEN r
  ELSE
    LET r1 == SetDirOffset(r, Mul32(Add32(Add32(r.num_files, r.block_off),
                                          1), 4))
        r2 == ResolveDirBlock(r1, f, "fail")
        r3 == RMalloc(r2)
        r4 == SetLeft(r3)
        r5 == ReadParts(r4, f)
        r6 == RFree(r5)
    IN  RReturnFile(r6)

\* pdb_get_elt_at_index (abfd, sym_index) on the archive f, the failAt-th
\* fallible call failing.
pdb_get_elt_at_index(f, sym_index, failAt) ==
  LET r1 == ReadBlockSize(f, failAt)
      r2 == ReadNumFiles(r1, f, sym_index)
      r3 == ReadFileSize(r2, f, sym_index)
      r4 == SumPreviousBlocks(r3, f, sym_index)
  IN  ReadBlocks(r4, f)

\* pdb_openr_next_archived_file without the + 1.
OpenSameAgain(f, last_file, failAt) ==
  pdb_get_elt_at_index(f, IF last_file.null THEN 0 ELSE last_file.key,
                       failAt)

\* pdb_openr_next_archived_file (archive, last_file), last_file being
\* [null |-> TRUE, ...] or [null |-> FALSE, key |-> its key]:
\*   if (!last_file) return pdb_get_elt_at_index (archive, 0);
\*   else return pdb_get_elt_at_index (archive, arch_eltdata (last_file)->key + 1);
pdb_openr_next_archived_file(f, last_file, failAt) ==
  pdb_get_elt_at_index(f, IF last_file.null THEN 0 ELSE last_file.key + 1,
                       failAt)

\* pdb_archive_p (abfd) on the file f: TRUE where it returns a cleanup,
\* FALSE where it returns NULL with bfd_error_wrong_format.
pdb_archive_p(f) ==
  LET ret == Delivered(f, 0, 32)
  IN  IF ret # 32 THEN FALSE
      ELSE Slice(f, 0, 32) = pdb_magic

(***************************************************************************)
(* Inputs: member lists for the writer, and archives made by other tools   *)
(* for the reader.                                                         *)
(***************************************************************************)
\* The writer's block size in pdb_write_contents.
block_size_0x400 == 1024

\* Words per block of the scaled-down writer runs: the superblock (56
\* bytes) must fit in one block.
SmallBlockWords == 14
SmallBlockSize == 4 * SmallBlockWords

\* The fallible calls 1 .. MaxFailAt of an operation may fail (0: none).
MaxFailAt == 24

\* A member of `size` bytes, the i-th of its archive: non-zero bytes at its
\* first and last position and on both sides of each block boundary.
Payload(i, size, block_size) ==
  LET marks == {p \in {0, size - 1}
                       \cup UNION {{k * block_size - 1, k * block_size} :
                                     k \in 1..(size \div block_size)} :
                  p >= 0 /\ p < size}
  IN  [len |-> size, nz |-> [p \in marks |-> ((p + 31 * i) % 255) + 1]]

Members(sizes, block_size) ==
  [i \in 1..Len(sizes) |-> Payload(i - 1, sizes[i], block_size)]

\* n sizes, all 0 but those that special gives.
Sizes(n, special) ==
  [i \in 1..n |-> IF i \in DOMAIN special THEN special[i] ELSE 0]

\* Lists written at the block size of the source: small ones, two whose
\* directory leaves its first block (inside the sizes, inside the block
\* lists), and two that take the writer to block 1024 and past the
\* free-map pair 1025, 1026.
TrueSizeLists ==
  { <<>>, <<0>>, <<1, 2, 3>>, <<2500>>, <<1024, 0, 2048>>,
    Sizes(254, (1 :> 1025) @@ (101 :> 1) @@ (254 :> 2048)),
    Sizes(300, (256 :> 3) @@ (300 :> 1)),
    <<1017 * 1024>>, <<1017 * 1024, 1>> }

\* Sizes of the members written at SmallBlockSize: around one block,
\* around the first free-map pair after block 2 and around the capacity of
\* the block map page.
SmallSizes ==
  LET W == SmallBlockWords
  IN  {0, 1, SmallBlockSize + 1}
        \cup {k * SmallBlockSize :
                k \in {1, 2, 4 * W - 8, 4 * W - 7, 4 * W - 6,
                       W * W - 3, W * W - 2, W * W - 1}}

\* Sizes of the members of the two-member lists.
SmallPairSizes ==
  LET W == SmallBlockWords
  IN  {0, 1, SmallBlockSize + 1}
        \cup {k * SmallBlockSize : k \in {4 * W - 8, W * W - 3}}

\* Lists written at SmallBlockSize: none, one or two members of those sizes,
\* and empty members whose sizes alone fill the directory's last block, or
\* need one word more.
SmallSizeLists ==
  {<<>>} \cup {<<s>> : s \in SmallSizes}
         \cup {<<s, t>> : s \in SmallPairSizes, t \in SmallPairSizes}
         \cup {Sizes(n, (1 :> 0)) :
                 n \in {SmallBlockWords * SmallBlockWords - 1,
                        SmallBlockWords * SmallBlockWords}}

\* <<block size, sizes of the members, failing call>>
WriteInputs ==
  {<<block_size_0x400, s, 0>> : s \in TrueSizeLists}
    \cup {<<SmallBlockSize, s, 0>> : s \in SmallSizeLists}
    \cup UNION {{<<bs, s, k>> : s \in {<<>>, <<1>>, <<0, bs + 1>>},
                                k \in 1..MaxFailAt} :
                  bs \in {block_size_0x400, SmallBlockSize}}

\* The blocks a stream of `size` bytes takes.
BlocksFor(size, block_size) == (size + block_size - 1) \div block_size

\* The size the format gives a stream whose directory entry is raw.
Effective(raw) == IF raw = SizeSentinel THEN 0 ELSE raw

RECURSIVE SumBlocks(_, _, _)
SumBlocks(raw, S, block_size) ==
  IF S = {} THEN 0
  ELSE LET j == CHOOSE j \in S : TRUE
       IN  BlocksFor(Effective(raw[j]), block_size)
             + SumBlocks(raw, S \ {j}, block_size)

\* The data blocks of the streams before stream i (1-based) of an archive
\* whose directory entries are raw.
BlocksBefore(raw, i, block_size) ==
  SumBlocks(raw, {j \in 1..(i - 1) : Effective(raw[j]) # 0}, block_size)

\* b with each <<position, bytes>> of pieces[lo .. hi - 1] stored.
RECURSIVE OverlayAll(_, _, _, _)
OverlayAll(b, pieces, lo, hi) ==
  IF lo >= hi THEN b
  ELSE IF hi = lo + 1 THEN Overlay(b, pieces[lo][1], pieces[lo][2])
  ELSE LET mid == (lo + hi) \div 2
           half == OverlayAll(b, pieces, lo, mid)
       IN  OverlayAll(half, pieces, mid, hi)

RECURSIVE SetToSeq(_)
SetToSeq(S) ==
  IF S = {} THEN <<>>
  ELSE LET e == CHOOSE e \in S : TRUE IN <<e>> \o SetToSeq(S \ {e})

Layouts == {"ascending", "descending", "scattered"}

\* The physical block of the k-th of the T blocks an archive needs after
\* blocks 0 .. 2: its block map page (k = 0), its directory blocks, then
\* its data blocks in stream order.
Phys(layout, k, T) ==
  CASE layout = "ascending"  -> 3 + k
    [] layout = "descending" -> 3 + (T - 1 - k)
    [] layout = "scattered"  ->
         3 + ((5 * k) % (IF T % 5 = 0 THEN T + 1 ELSE T))

\* An archive as another tool may have written it: block size block_size,
\* directory entries raw (a size, or the sentinel), its blocks placed by
\* layout.  Stream i holds Payload(i, its size); the unused tail of a
\* stream's last block starts with a byte 0xEE.
Craft(block_size, raw, layout) ==
  LET n == Len(raw)
      wpb == block_size \div 4
      B == BlocksBefore(raw, n + 1, block_size)
      words == 1 + n + B
      D == (words + wpb - 1) \div wpb
      T == 1 + D + B
      bma == Phys(layout, 0, T)
      dirblk(d) == Phys(layout, 1 + d, T)
      datablk(o) == Phys(layout, 1 + D + o, T)
      nonzero == {i \in 1..n : Effective(raw[i]) # 0}
      \* where directory word j lies
      at(j) == dirblk(j \div wpb) * block_size + (j % wpb) * 4
      header == << <<0, pdb_magic>>, <<32, bfd_putl32(block_size)>>,
                   <<36, bfd_putl32(1)>>, <<40, bfd_putl32(3 + T + 1)>>,
                   <<44, bfd_putl32(4 * words)>>, <<52, bfd_putl32(bma)>> >>
      blockmap == [d \in 1..D |->
                     <<bma * block_size + 4 * (d - 1),
                       bfd_putl32(dirblk(d - 1))>>]
      sizes == SetToSeq({<<at(i), bfd_putl32(raw[i])>> :
                           i \in {i \in 1..n : raw[i] # 0}})
      lists == SetToSeq(UNION {
                 {<<at(1 + n + BlocksBefore(raw, i, block_size) + m),
                    bfd_putl32(datablk(BlocksBefore(raw, i, block_size) + m))>> :
                    m \in 0..(BlocksFor(raw[i], block_size) - 1)} :
                 i \in nonzero})
      data == SetToSeq(UNION {
                 {LET from == m * block_size
                      take == IF raw[i] - from > block_size
                                THEN block_size ELSE raw[i] - from
                      blk == Slice(Payload(i - 1, raw[i], block_size),
                                   from, take)
                  IN  <<datablk(BlocksBefore(raw, i, block_size) + m)
                          * block_size,
                        IF take < block_size
                          THEN Overlay(blk, take,
                                       [len |-> 1, nz |-> (0 :> 238)])
                          ELSE blk>> :
                    m \in 0..(BlocksFor(raw[i], block_size) - 1)} :
                 i \in nonzero})
      pieces == header \o blockmap \o <<<<at(0), bfd_putl32(n)>>>>
                  \o sizes \o lists \o data
  IN  OverlayAll(Zeros((3 + T + 1) * block_size), pieces, 1, Len(pieces) + 1)

\* The streams of the archive Craft(block_size, raw, layout).
CraftStreams(block_size, raw) ==
  [i \in 1..Len(raw) |-> Payload(i - 1, Effective(raw[i]), block_size)]

ValidBlockSizes == {512, 1024, 2048, 4096}

\* <<block size, directory entries>> of the well-formed crafted archives:
\* a small archive at each block size, archives with the size sentinel,
\* and archives at 512 whose directory crosses its first block inside the
\* sizes (130 streams), inside a block list (126) and at the start of one
\* (127).
CraftedShapes ==
  {<<bs, <<3, 0, bs, bs + 1>>>> : bs \in ValidBlockSizes}
    \cup { <<512, <<5, 0, 513, 0, 2, SizeSentinel, 1>>>>,
           <<512, <<SizeSentinel, 1024>>>>,
           <<512, Sizes(126, (1 :> 1025) @@ (2 :> 1) @@ (126 :> 512))>>,
           <<512, Sizes(127, (1 :> 513) @@ (5 :> SizeSentinel)
                                @@ (127 :> 3))>>,
           <<512, Sizes(130, (2 :> 600) @@ (127 :> 2) @@ (128 :> 513)
                                @@ (129 :> SizeSentinel) @@ (130 :> 1))>> }

\* A well-formed archive whose header is then damaged.
Sample == Craft(1024, <<3, 0, 1025>>, "ascending")

\* Values of the header's block_size that the reader must refuse.
BadBlockSizes ==
  {0, 1, 256, 511, 513, 600, 768, 1000, 1536, 4097, 8192, 65536,
   -2147483647 - 1, -1}

\* The first block index whose byte offset, at the block size of Sample, is
\* not a uint32_t: 2^32 / 1024.
FarBlock == (Half \div 1024) * Half

\* Sample with FarBlock added to the block index held at byte pos.  The
\* block so named lies beyond the end of the file.
Far(pos) ==
  Overlay(Sample, pos,
          bfd_putl32(Add32(bfd_getl32(Slice(Sample, pos, 4)), FarBlock)))

\* Where Sample holds block_map_addr, the first entry of its block map
\* page and the block index of its first stream.
FarWords == {52, 3 * 1024, 4 * 1024 + 16}

\* The archives opened for reading that the writer did not make, each with
\* the streams it holds (wf: it is well formed).
CraftedArchives ==
  UNION {{[file |-> Craft(sh[1], sh[2], l), wf |-> TRUE, raw |-> sh[2],
           streams |-> CraftStreams(sh[1], sh[2])] : l \in Layouts} :
           sh \in CraftedShapes}
    \cup {[file |-> Overlay(Sample, 32, bfd_putl32(v)), wf |-> FALSE,
           raw |-> <<>>, streams |-> <<>>] : v \in BadBlockSizes}
    \cup {[file |-> Slice(Sample, 0, cut), wf |-> FALSE, raw |-> <<>>,
           streams |-> <<>>] :
            cut \in {0, 20, 34, 56, 3 * 1024 + 2, 4 * 1024 + 3}}
    \cup {[file |-> Overlay(Sample, 0, [len |-> 1, nz |-> (0 :> 109)]),
           wf |-> FALSE, raw |-> <<>>, streams |-> <<>>]}
    \cup {[file |-> Far(pos), wf |-> FALSE, raw |-> <<>>,
           streams |-> <<>>] : pos \in FarWords}

(***************************************************************************)
(* The state machine: a file is written by pdb_write_contents or comes     *)
(* from elsewhere; it is probed with pdb_archive_p; its streams are then   *)
(* fetched by index or enumerated.                                         *)
(***************************************************************************)
VARIABLES
  archive,    \* the bytes of the file
  origin,     \* "none", "written" or "crafted"
  streams,    \* the streams the file was made to hold
  raw,        \* the size entries of the directory the file was made with
  wf,         \* the file is a complete archive at a block size of the format
  wres,       \* the writer's state at its return, less its buffers
  probed,     \* "unknown", or "archive" / "wrong_format" from pdb_archive_p
  rres,       \* the reader's state at its return, less its buffer
  asked,      \* the index handed to pdb_get_elt_at_index
  last_file,  \* the member fed back to pdb_openr_next_archived_file
  yielded,    \* the keys of the members the enumeration has returned
  op          \* the operation that made this state

vars == <<archive, origin, streams, raw, wf, wres, probed, rres, asked,
          last_file, yielded, op>>

WriterSummary(w) == [w EXCEPT !.out = Zeros(0), !.buf = Zeros(0)]
ReaderSummary(r) == [r EXCEPT !.buf = Zeros(0)]

Init ==
  /\ archive = Zeros(0)
  /\ origin = "none"
  /\ streams = <<>>
  /\ raw = <<>>
  /\ wf = FALSE
  /\ wres = WriterStart(0, 0)
  /\ probed = "unknown"
  /\ rres = ReaderStart(0)
  /\ asked = -1
  /\ last_file = [null |-> TRUE, key |-> 0]
  /\ yielded = <<>>
  /\ op = "init"

\* The file and the writer's state once pdb_write_contents has returned w.
Written(w, members) ==
  /\ archive' = w.out
  /\ wres' = WriterSummary(w)
  /\ streams' = members
  /\ raw' = [i \in 1..Len(members) |-> members[i].len]
  /\ wf' = (w.ok /\ w.block_size = block_size_0x400)

\* bfd_write_contents of a new archive: pdb_write_contents.
WriteMsf ==
  /\ origin = "none"
  /\ \E t \in WriteInputs :
       Written(pdb_write_contents(t[1], Members(t[2], t[1]), t[3]),
               Members(t[2], t[1]))
  /\ origin' = "written"
  /\ op' = "write"
  /\ UNCHANGED <<probed, rres, asked, last_file, yielded>>

\* A file that another tool wrote is opened.
OpenCrafted ==
  /\ origin = "none"
  /\ \E a \in CraftedArchives :
       /\ archive' = a.file
       /\ streams' = a.streams
       /\ raw' = a.raw
       /\ wf' = a.wf
  /\ origin' = "crafted"
  /\ op' = "craft"
  /\ UNCHANGED <<wres, probed, rres, asked, last_file, yielded>>

\* bfd_check_format: pdb_archive_p.  A file whose writing failed is not
\* read back.
Probe ==
  /\ origin # "none"
  /\ origin = "written" => wres.ok
  /\ probed = "unknown"
  /\ probed' = IF pdb_archive_p(archive) THEN "archive" ELSE "wrong_format"
  /\ op' = "probe"
  /\ UNCHANGED <<archive, origin, streams, raw, wf, wres, rres, asked,
                 last_file, yielded>>

\* Streams per archive up to which the reader's calls are made to fail; they
\* are not on an archive that the reader refuses at its header anyway.
MaxFailStreams == 4

ReadFailPoints ==
  IF Len(streams) <= MaxFailStreams /\ (origin = "written" => wf)
    THEN 0..MaxFailAt
    ELSE {0}

\* pdb_get_elt_at_index.  A call's outcome depends on the file and the
\* index alone, so a behaviour makes one call.
GetAt ==
  /\ op = "probe"
  /\ probed = "archive"
  /\ \E i \in 0..(Len(streams) + 1), k \in ReadFailPoints :
       /\ rres' = ReaderSummary(pdb_get_elt_at_index(archive, i, k))
       /\ asked' = i
  /\ op' = "get_at"
  /\ UNCHANGED <<archive, origin, streams, raw, wf, wres, probed, last_file,
                 yielded>>

\* The enumeration once pdb_openr_next_archived_file has returned r.
Enumerated(r) ==
  /\ rres' = ReaderSummary(r)
  /\ last_file' = IF r.ret = "file" THEN [null |-> FALSE, key |-> r.key]
                  ELSE last_file
  /\ yielded' = IF r.ret = "file" THEN Append(yielded, r.key) ELSE yielded

\* pdb_openr_next_archived_file, each member returned being fed back as
\* last_file, until a call returns NULL.
OpenNext ==
  /\ op \in {"probe", "next"}
  /\ probed = "archive"
  /\ op = "next" => rres.ret = "file"
  /\ \E k \in ReadFailPoints :
       Enumerated(pdb_openr_next_archived_file(archive, last_file, k))
  /\ asked' = IF last_file.null THEN 0 ELSE last_file.key + 1
  /\ op' = "next"
  /\ UNCHANGED <<archive, origin, streams, raw, wf, wres, probed>>

Next == WriteMsf \/ OpenCrafted \/ Probe \/ GetAt \/ OpenNext

Spec == Init /\ [][Next]_vars

(***************************************************************************)
(* pdb_write_bitmap on its own: a function of block_size and num_blocks,   *)
(* run at block sizes small enough for a block count to exceed the         *)
(* 8 * block_size blocks that one free-map block describes.                *)
(***************************************************************************)
BitmapBlockSizes == {4, 8}

\* Block counts handed to pdb_write_bitmap.
MaxBitmapBlocks == 70

\* The fallible calls 1 .. MaxBitmapFailAt of pdb_write_bitmap may fail.
MaxBitmapFailAt == 3

InitBitmap ==
  /\ archive = Zeros(0)
  /\ origin = "none"
  /\ streams = <<>>
  /\ raw = <<>>
  /\ wf = FALSE
  /\ \E bs \in BitmapBlockSizes, n \in 1..MaxBitmapBlocks,
        k \in 0..MaxBitmapFailAt :
       wres = [WriterStart(bs, k) EXCEPT !.num_blocks = n]
  /\ probed = "unknown"
  /\ rres = ReaderStart(0)
  /\ asked = -1
  /\ last_file = [null |-> TRUE, key |-> 0]
  /\ yielded = <<>>
  /\ op = "init"

\* The file and the writer's state once pdb_write_bitmap has returned w.
BitmapWritten(w) ==
  /\ archive' = w.out
  /\ wres' = WriterSummary(w)

\* pdb_write_bitmap (abfd, block_size, num_blocks)
WriteBitmapOnly ==
  /\ op = "init"
  /\ BitmapWritten(pdb_write_bitmap(wres, wres.num_blocks))
  /\ origin' = "written"
  /\ op' = "bitmap"
  /\ UNCHANGED <<streams, raw, wf, probed, rres, asked, last_file, yielded>>

NextBitmap == WriteBitmapOnly

SpecBitmap == InitBitmap /\ [][NextBitmap]_vars

(***************************************************************************)
(* What the properties below speak of.                                     *)
(***************************************************************************)
\* The u32 at byte `off` of the file.
FileWord(off) == bfd_getl32(Slice(archive, off, 4))

\* The largest element of a non-empty set of numbers.
MaxOf(S) == CHOOSE m \in S : \A x \in S : x <= m

\* Bit j of a block, counted from the high-order bit of its first byte.
BitOf(b, j) == (ByteAt(b, j \div 8) \div Shl1(7 - (j % 8))) % 2

\* The call of pdb_get_elt_at_index of this state was made with no failure
\* of the host, on a well-formed archive.
PlainGetAt == op = "get_at" /\ wf /\ rres.failAt = 0

\* What that call must give for the index `asked` of an archive holding
\* `streams`.
GivesStream ==
  IF asked < Len(streams)
    THEN /\ rres.ret = "file"
         /\ rres.key = asked
         /\ rres.parsed_size = streams[asked + 1].len
         /\ rres.data = streams[asked + 1]
         /\ rres.num_files = Len(streams)
    ELSE /\ rres.ret = "null"
         /\ rres.err = "no_more_archived_files"
         /\ rres.num_files = Len(streams)

(***************************************************************************)
(* C1: Round trip.  Reading back a file that pdb_write_contents wrote      *)
(* successfully gives, at every index below the number of members, a       *)
(* member whose size and bytes are those of the member written, and the    *)
(* member count of the directory is the number of members written; at an   *)
(* index past the last member the reader reports no more files.            *)
(***************************************************************************)
C1_RoundTrip ==
  (PlainGetAt /\ origin = "written") => GivesStream

\* The last member (2048 bytes, two whole blocks) of an archive of 254
\* members, whose block list lies in the directory's second block, is
\* read back.
C1_Witness ==
  /\ PlainGetAt
  /\ origin = "written"
  /\ Len(streams) = 254
  /\ asked = 253
  /\ rres.ret = "file"
  /\ rres.data.len = 2 * block_size_0x400

(***************************************************************************)
(* C2: Allocator stride.  No block that pdb_allocate_block has returned    *)
(* to the writer, for the block map page, a directory block or a data      *)
(* block, is congruent to 1 or 2 modulo block_size, and the counter        *)
(* num_blocks, which starts at 3, is never congruent to 2.                 *)
(***************************************************************************)
C2_AllocatorStride ==
  /\ \A i \in 1..Len(wres.allocs) :
       wres.allocs[i] % wres.block_size \notin {1, 2}
  /\ \A n \in wres.nbs : n % wres.block_size # 2

\* At the block size of the source, the writer has been handed block 1024
\* and then block 1027.
C2_Witness ==
  /\ op = "write"
  /\ wres.block_size = block_size_0x400
  /\ \E i \in 1..(Len(wres.allocs) - 1) :
       /\ wres.allocs[i] = block_size_0x400
       /\ wres.allocs[i + 1] = block_size_0x400 + 3

(***************************************************************************)
(* C10: Free-block map.  After pdb_write_bitmap has returned true for a    *)
(* block count N, each interval k below ceil(N / block_size) has had one   *)
(* block written, at block k * block_size + 1; the first                   *)
(* min(8 * block_size, max(0, N - 1 - 8 * block_size * k)) bits of that    *)
(* block, counted from the high-order bit of its first byte, are 0, every  *)
(* other bit of it is 1, and none of its bytes is indeterminate.           *)
(***************************************************************************)
C10_FreeBlockMap ==
  (op = "bitmap" /\ wres.st = "run") =>
    LET bs == wres.block_size
        N  == wres.num_blocks
        intervals == (N + bs - 1) \div bs
    IN  /\ wres.wrote = {k * bs + 1 : k \in 0..(intervals - 1)}
        /\ wres.nwrites = intervals
        /\ \A k \in 0..(intervals - 1) :
             LET b == Slice(archive, (k * bs + 1) * bs, bs)
                 rest == (N - 1) - k * 8 * bs
                 u == IF rest < 0 THEN 0
                      ELSE IF rest > 8 * bs THEN 8 * bs ELSE rest
             IN  /\ \A p \in 0..(bs - 1) : ByteAt(b, p) \in 0..255
                 /\ \A j \in 0..(8 * bs - 1) :
                      BitOf(b, j) = IF j < u THEN 0 ELSE 1

\* 38 blocks at a block size of 4: the first free-map block is all used,
\* the second holds 5 used bits, the others are all free.
C10_Witness ==
  /\ op = "bitmap"
  /\ wres.st = "run"
  /\ wres.block_size = 4
  /\ wres.num_blocks = 38
  /\ wres.nwrites = 10

(***************************************************************************)
(* C3: Header consistency.  After a successful pdb_write_contents the      *)
(* num_blocks field of the superblock is one more than the largest block   *)
(* that the writer wrote to.                                               *)
(***************************************************************************)
C3_HeaderConsistency ==
  (op = "write" /\ wres.ok) => FileWord(40) = MaxOf(wres.wrote) + 1

(***************************************************************************)
(* C4: Writer overflow.  pdb_write_contents fails with                     *)
(* bfd_error_invalid_operation only if the directory takes more blocks     *)
(* than the block map page has entries, and, no call of the host failing,  *)
(* whenever it does; having set that error it has written nothing more:    *)
(* no free-map block, no num_blocks field, and its buffer is freed.        *)
(***************************************************************************)
\* The blocks that the directory of the members written takes: the member
\* count, and the size and the block indices of each member.
DirectoryBlocks ==
  BlocksFor(4 + DirectoryBytes(streams, wres.block_size, 1, Len(streams) + 1),
            wres.block_size)

C4_WriterOverflow ==
  op = "write" =>
    /\ wres.err = "invalid_operation"
         => DirectoryBlocks > wres.block_size \div 4
    /\ (wres.failAt = 0 /\ DirectoryBlocks > wres.block_size \div 4)
         => wres.err = "invalid_operation"
    /\ wres.err = "invalid_operation"
         => /\ ~ wres.ok
            /\ wres.ovf = wres.nwrites
            /\ \A b \in wres.wrote : b % wres.block_size # 1
            /\ FileWord(40) = 0
            /\ wres.bufs = 0

\* The directory of two members overflows the block map page while the
\* blocks of the members are being written.
C4_Witness ==
  /\ op = "write"
  /\ wres.err = "invalid_operation"
  /\ Len(streams) = 2
  /\ wres.nwrites > 2 * SmallBlockWords
  /\ wres.block_map_off = wres.block_size

(***************************************************************************)
(* C5, as stated: a file that starts with the magic is recognised          *)
(* whatever its block_size; on a file that holds the block_size field,     *)
(* pdb_get_elt_at_index returns NULL with                                  *)
(* bfd_error_malformed_archive exactly when the block_size of the header   *)
(* is not 512, 1024, 2048 or 4096, and it then has read nothing but that   *)
(* field.                                                                  *)
(***************************************************************************)
\* The block_size field of the superblock.
HeaderBlockSize == FileWord(32)

\* pdb_archive_p has accepted a file that starts with the magic.
Recognised ==
  (op = "probe" /\ archive.len >= 32 /\ Slice(archive, 0, 32) = pdb_magic)
    => probed = "archive"

\* The call returned at the test of block_size: nothing was read but that
\* field and no member was created.
RejectedAtBlockSize ==
  /\ rres.ret = "null"
  /\ rres.err = "malformed_archive"
  /\ rres.elt = "none"
  /\ rres.reads = {<<32, 4>>}

C5_AsStated ==
  /\ Recognised
  /\ (op = "get_at" /\ rres.failAt = 0 /\ archive.len >= 36) =>
       /\ (rres.ret = "null" /\ rres.err = "malformed_archive")
            <=> HeaderBlockSize \notin ValidBlockSizes
       /\ HeaderBlockSize \notin ValidBlockSizes => RejectedAtBlockSize

(***************************************************************************)
(* C5, amended: a file that starts with the magic is recognised whatever   *)
(* its block_size; on a file that holds the block_size field,              *)
(* pdb_get_elt_at_index stops at the test of block_size, with              *)
(* bfd_error_malformed_archive, no member and nothing read but that        *)
(* field, exactly when block_size is not 512, 1024, 2048 or 4096;          *)
(* otherwise it goes on to read block_map_addr.                            *)
(***************************************************************************)
C5_BlockSizeValidation ==
  /\ Recognised
  /\ (op = "get_at" /\ rres.failAt = 0 /\ archive.len >= 36) =>
       IF HeaderBlockSize \notin ValidBlockSizes
         THEN RejectedAtBlockSize
         ELSE <<52, 4>> \in rres.reads

\* A recognised file whose header holds a block_size of 600 is refused.
C5_Witness ==
  /\ op = "get_at"
  /\ rres.failAt = 0
  /\ probed = "archive"
  /\ HeaderBlockSize = 600
  /\ RejectedAtBlockSize

(***************************************************************************)
(* C6: Enumeration = indexed.  On a well-formed archive of n members, the  *)
(* calls of pdb_openr_next_archived_file, the first with no last_file and  *)
(* each next one with the member just returned, return the members with    *)
(* keys 0, 1, .. in that order and never more than n of them; the call     *)
(* that follows k members returns member k, as pdb_get_elt_at_index (k)    *)
(* does, or NULL with bfd_error_no_more_archived_files when k = n.         *)
(***************************************************************************)
C6_Enumeration ==
  (op = "next" /\ wf) =>
    /\ yielded = [i \in 1..Len(yielded) |-> i - 1]
    /\ Len(yielded) <= Len(streams)
    /\ rres.failAt = 0 =>
         /\ asked = IF rres.ret = "file" THEN Len(yielded) - 1
                    ELSE Len(yielded)
         /\ GivesStream
         /\ rres = ReaderSummary(pdb_get_elt_at_index(archive, asked, 0))

\* The enumeration of an archive of 300 members has returned them all and
\* then NULL.
C6_Witness ==
  /\ op = "next"
  /\ wf
  /\ Len(streams) = 300
  /\ Len(yielded) = 300
  /\ rres.ret = "null"
  /\ rres.err = "no_more_archived_files"

(***************************************************************************)
(* C7: Size sentinel.  Where the size entry of member i is 0xffffffff,     *)
(* pdb_get_elt_at_index (i) returns an empty member, having read neither   *)
(* a block index nor a data block; and for a later member the blocks it    *)
(* skips in the directory count none for member i, so that the member      *)
(* comes back whole.                                                       *)
(***************************************************************************)
C7_SizeSentinel ==
  (PlainGetAt /\ origin = "crafted" /\ asked < Len(raw)) =>
    /\ raw[asked + 1] = SizeSentinel =>
         /\ rres.ret = "file"
         /\ rres.parsed_size = 0
         /\ rres.data = Zeros(0)
         /\ rres.dir_offset = 4 * (asked + 1)
         /\ \A rd \in rres.reads : rd[2] = 4
         /\ Cardinality(rres.reads) <= 6
         /\ rres.bufs = 0
    /\ (\E j \in 1..asked : raw[j] = SizeSentinel) =>
         /\ GivesStream
         /\ rres.data.len > 0 =>
              rres.block_off = BlocksBefore(raw, asked + 1, rres.block_size)

\* Member 129 (one byte), which follows a member whose size entry is the
\* sentinel, is read.
C7_Witness ==
  /\ PlainGetAt
  /\ origin = "crafted"
  /\ Len(raw) = 130
  /\ asked = 129
  /\ raw[129] = SizeSentinel
  /\ rres.ret = "file"
  /\ rres.data.len = 1

(***************************************************************************)
(* C8: Directory paging.  On a well-formed archive whose directory blocks  *)
(* lie anywhere in the file, every u32 of the directory that               *)
(* pdb_get_elt_at_index (i) uses (the member count, the size of member i   *)
(* and, where that is not 0, the sizes of the members before i and the     *)
(* block indices of member i) is read, and no other, at the place          *)
(* its offset d in the directory has in the file, byte d mod block_size of *)
(* the block that entry d div block_size of the block map page names, and  *)
(* the member returned has the size and the bytes of stream i.             *)
(***************************************************************************)
\* The entry `slot` of the block map page: the block that holds the bytes
\* slot * block_size .. of the directory.
DirBlockAt(slot) == FileWord(FileWord(52) * HeaderBlockSize + 4 * slot)

\* The place in the file of the byte at offset d of the directory.
DirPhys(d) ==
  DirBlockAt(d \div HeaderBlockSize) * HeaderBlockSize
    + (d % HeaderBlockSize)

\* The offsets in the directory of the u32s that the call for index
\* `asked` uses.
UsedOffsets ==
  {0, 4 * (asked + 1)}
    \cup {4 * (j + 1) : j \in {k \in 0..asked : streams[asked + 1].len > 0}}
    \cup {4 * (Len(streams) + 1
                 + BlocksBefore(raw, asked + 1, HeaderBlockSize) + t) :
            t \in 0..(BlocksFor(streams[asked + 1].len, HeaderBlockSize)
                        - 1)}

C8_DirectoryPaging ==
  (PlainGetAt /\ origin = "crafted" /\ asked < Len(streams)) =>
    /\ GivesStream
    /\ \A d \in UsedOffsets : <<DirPhys(d), 4>> \in rres.reads
    /\ \A rd \in rres.reads :
         rd[2] = 4 =>
           \/ rd[1] \in {32, 52}
           \/ \E d \in UsedOffsets :
                \/ rd[1] = DirPhys(d)
                \/ rd[1] = FileWord(52) * HeaderBlockSize
                             + 4 * (d \div HeaderBlockSize)
           \/ rd[1] = FileWord(52) * HeaderBlockSize

\* The first member (513 bytes) of an archive of 127 members, whose block
\* list starts the directory's second block, is read, that block lying
\* before the first one in the file.
C8_Witness ==
  /\ PlainGetAt
  /\ origin = "crafted"
  /\ Len(streams) = 127
  /\ asked = 0
  /\ rres.ret = "file"
  /\ rres.data.len = 513
  /\ DirBlockAt(1) < DirBlockAt(0)

(***************************************************************************)
(* C9: Scratch release.  When pdb_write_contents or pdb_get_elt_at_index   *)
(* has returned, by whatever path, every buffer it allocated is freed.     *)
(***************************************************************************)
C9_ScratchRelease ==
  /\ wres.st = "done" => wres.bufs = 0
  /\ rres.st = "done" => rres.bufs = 0

(***************************************************************************)
(* C11: No offset wraparound on read.  Every offset that                   *)
(* pdb_get_elt_at_index seeks to for a block index taken from the          *)
(* superblock, the block map page or the directory is the number           *)
(* block * block_size + the offset in the block, not that number modulo    *)
(* 2^32.                                                                   *)
(***************************************************************************)
\* The base-2^16 digits, high first, of the uint32_t a.
Limbs32(a) == <<0, (a \div Half) % Half, a % Half>>

\* The base-2^16 digits, high first, of block * block_size + off, block
\* being a uint32_t and off < block_size <= 4096: no digit is dropped.
ExactOffset(block, block_size, off) ==
  LET p0 == (block % Half) * block_size + off
      p1 == ((block \div Half) % Half) * block_size + (p0 \div Half)
  IN  <<p1 \div Half, p1 % Half, p0 % Half>>

C11_NoOffsetWrap ==
  op \in {"get_at", "next"} =>
    \A s \in rres.seeks :
      Limbs32(s[3]) = ExactOffset(s[1], rres.block_size, s[2])

=============================================================================
